---------------------------- MODULE Spec2Model ----------------------------
(***************************************************************************)
(* helix-version-picker: the version fetcher action.                       *)
(*                                                                         *)
(* Two variants of the handler exist in the repository:                    *)
(*   "flat"    src/src/index.js     (params.__ow_headers, plain object)    *)
(*   "headers" src/unnamed/part_000 (request.headers.get, Response object) *)
(*                                                                         *)
(* A JavaScript string is a sequence of characters, so that trimming,      *)
(* slash collapsing, URL parsing and concatenation are computed character  *)
(* by character.  An ASCII character is a one-character string; any other  *)
(* character is written by its code point, "U+2028".                       *)
(* undefined/null are one-element sequences whose element is a word no     *)
(* character is written as.                                                *)
(***************************************************************************)
EXTENDS Integers, Sequences, FiniteSets, TLC

(***************************************************************************)
(* Bounds of the model.                                                    *)
(***************************************************************************)
\* longest body the remote serves
MaxBodyLen == 3
\* invocation slots that may be in flight together
MaxInvocations == 2

(***************************************************************************)
(* JavaScript values.                                                      *)
(***************************************************************************)
\* a header that is not there: undefined (flat) / null (headers.get)
Absent == <<"undefined">>
\* a null field of a parsed URL
Null == <<"null">>
\* no URL was computed / no response was returned yet
NoUrl == <<"none">>

\* !x for a string-or-missing value
Falsy(x) == x = Absent \/ x = Null \/ x = <<>>

\* `${x}` : a missing value prints as its name
TemplateStr(x) ==
  IF x = Null THEN <<"n", "u", "l", "l">>
  ELSE IF x = Absent THEN <<"u", "n", "d", "e", "f", "i", "n", "e", "d">>
  ELSE x

\* x || '' for a field of a parsed URL
OrEmpty(x) == IF Falsy(x) THEN <<>> ELSE x

(***************************************************************************)
(* String helpers.                                                         *)
(***************************************************************************)
\* s.slice(n): s without its first n characters
Drop(s, n) == SubSeq(s, n + 1, Len(s))

\* s.startsWith(p)
StartsWith(s, p) == Len(s) >= Len(p) /\ SubSeq(s, 1, Len(p)) = p

\* index of the first character of s that is in cs, Len(s)+1 when none
FirstOf(s, cs) ==
  IF \E k \in 1..Len(s) : s[k] \in cs
  THEN CHOOSE k \in 1..Len(s) : s[k] \in cs /\ \A j \in 1..(k - 1) : s[j] \notin cs
  ELSE Len(s) + 1

\* the white space and line terminators String.prototype.trim removes:
\* TAB, LF, VT, FF, CR, SP, NBSP, U+1680, U+2000..U+200A, LS, PS, U+202F, U+205F,
\* U+3000 and ZWNBSP
WhiteSpace ==
  {"\t", "\n", "", "\f", "\r", " ", "U+00A0", "U+1680",
   "U+2000", "U+2001", "U+2002", "U+2003", "U+2004", "U+2005", "U+2006", "U+2007",
   "U+2008", "U+2009", "U+200A", "U+2028", "U+2029", "U+202F", "U+205F", "U+3000",
   "U+FEFF"}

RECURSIVE TrimStart(_)
TrimStart(s) ==
  IF s # <<>> /\ Head(s) \in WhiteSpace THEN TrimStart(Tail(s)) ELSE s

RECURSIVE TrimEnd(_)
TrimEnd(s) ==
  IF s # <<>> /\ s[Len(s)] \in WhiteSpace THEN TrimEnd(SubSeq(s, 1, Len(s) - 1)) ELSE s

\* text.trim()
NoTrim(s) == s
Trim(s) == TrimEnd(TrimStart(s))

\* .replace(/\/+/g, '/') : every run of slashes becomes one slash
RECURSIVE CollapseSlashes(_)
CollapseSlashes(s) ==
  IF Len(s) < 2 THEN s
  ELSE IF s[1] = "/" /\ s[2] = "/" THEN CollapseSlashes(Tail(s))
  ELSE <<s[1]>> \o CollapseSlashes(Tail(s))

\* pathname.replace(/[?#]/g, encodeURIComponent) in url.format
RECURSIVE EscapePathname(_)
EscapePathname(s) ==
  IF s = <<>> THEN <<>>
  ELSE IF Head(s) = "?" THEN <<"%", "3", "F">> \o EscapePathname(Tail(s))
  ELSE IF Head(s) = "#" THEN <<"%", "2", "3">> \o EscapePathname(Tail(s))
  ELSE <<Head(s)>> \o EscapePathname(Tail(s))

(***************************************************************************)
(* url.parse / url.format of Node's legacy url module, as they act on      *)
(* ASCII strings without upper case, white space, control characters, "@", *)
(* an xn-- label and the characters url.parse ends a host at or escapes:   *)
(* " % ' ; < > \ ^ ` { | }                                                 *)
(***************************************************************************)
\* protocolPattern = /^[a-z0-9.+-]+:/i
ProtoChars ==
  {"a", "b", "c", "d", "e", "f", "g", "h", "i", "j", "k", "l", "m", "n", "o", "p",
   "q", "r", "s", "t", "u", "v", "w", "x", "y", "z", "0", "1", "2", "3", "4", "5",
   "6", "7", "8", "9", ".", "+", "-"}

\* slashedProtocol: the protocols that always carry //
FILE_PROTOCOL == <<"f", "i", "l", "e", ":">>

SlashedProtocols ==
  { <<"h", "t", "t", "p", ":">>, <<"h", "t", "t", "p", "s", ":">>,
    <<"f", "t", "p", ":">>, <<"g", "o", "p", "h", "e", "r", ":">>, FILE_PROTOCOL,
    <<"w", "s", ":">>, <<"w", "s", "s", ":">> }

\* hostlessProtocol: the protocols that never carry a host
HostlessProtocols == { <<"j", "a", "v", "a", "s", "c", "r", "i", "p", "t", ":">> }

\* hostnameMaxLen
hostnameMaxLen == 255

\* the digits of portPattern = /:[0-9]*$/
Digits == {"0", "1", "2", "3", "4", "5", "6", "7", "8", "9"}

\* the characters getHostname cuts the hostname at
HostnameEndChars == {"/", "\\", "#", "?", ":"}

\* the characters of forbiddenHostChars a hostname can still hold once
\* getHostname has cut it and the host scan has ended at the others
ForbiddenHostChars == {"[", "]"}

\* the character of forbiddenHostCharsIpv6 a host in brackets can hold
ForbiddenHostCharsIpv6 == {"U+0000"}

\* what URL.parse gives for a string it throws ERR_INVALID_URL on
InvalidUrl == [threw |-> "ERR_INVALID_URL"]

\* where portPattern matches in the host: at its last ":" when only digits
\* follow, Len(host)+1 when it does not match
PortIndex(host) ==
  IF \E k \in 1..Len(host) : host[k] = ":" /\ \A j \in (k + 1)..Len(host) : host[j] \in Digits
  THEN CHOOSE k \in 1..Len(host) :
         host[k] = ":" /\ \A j \in (k + 1)..Len(host) : host[j] \in Digits
  ELSE Len(host) + 1

\* parseHost: the port, without its colon; empty when there is none
PortOf(host) == Drop(host, PortIndex(host))

\* parseHost: the host without its port
StripPort(host) == SubSeq(host, 1, PortIndex(host) - 1)

\* isIpv6Hostname: the hostname is written in brackets
IsIpv6Hostname(hostname) ==
  hostname # <<>> /\ Head(hostname) = "[" /\ hostname[Len(hostname)] = "]"

\* getHostname: where the hostname is cut, Len+1 when it is kept whole; a
\* hostname in brackets is not cut
HostnameCut(hostname) ==
  IF IsIpv6Hostname(hostname) THEN Len(hostname) + 1
  ELSE FirstOf(hostname, HostnameEndChars)

\* the hostname of a host: its port stripped, cut by getHostname, and emptied
\* when longer than hostnameMaxLen
Hostname(host) ==
  IF HostnameCut(StripPort(host)) - 1 > hostnameMaxLen THEN <<>>
  ELSE SubSeq(StripPort(host), 1, HostnameCut(StripPort(host)) - 1)

\* url.parse throws: the hostname is there and holds a forbidden character
HostThrows(host) ==
  /\ Hostname(host) # <<>>
  /\ \E k \in 1..Len(Hostname(host)) :
       Hostname(host)[k] \in (IF IsIpv6Hostname(StripPort(host))
                              THEN ForbiddenHostCharsIpv6 ELSE ForbiddenHostChars)

\* this.host = hostname + ':' + port
HostField(host) ==
  Hostname(host) \o (IF PortOf(host) # <<>> THEN <<":">> \o PortOf(host) ELSE <<>>)

\* the protocol with its colon, Null when the string has none
ParseProtocol(s) ==
  LET c == FirstOf(s, {":"})
  IN IF c > 1 /\ c <= Len(s) /\ \A k \in 1..(c - 1) : s[k] \in ProtoChars
     THEN SubSeq(s, 1, c)
     ELSE Null

\* the end of url.parse: pathname defaults to "/" behind a host, path = pathname + search
ParseFinish(proto, slashes, host, hostname, rawPath, search, hash) ==
  LET pathname == IF rawPath # <<>> THEN rawPath
                  ELSE IF proto \in SlashedProtocols /\ ~Falsy(hostname) THEN <<"/">>
                  ELSE Null
  IN [protocol |-> proto, slashes |-> slashes, host |-> host,
      pathname |-> pathname, search |-> search, hash |-> hash,
      path |-> IF pathname # Null \/ search # Null
               THEN OrEmpty(pathname) \o OrEmpty(search)
               ELSE Null]

\* what precedes the hash splits at the first "?" into pathname and search
ParseSearch(proto, slashes, host, hostname, beforeHash, hash) ==
  LET qIdx == FirstOf(beforeHash, {"?"})
  IN ParseFinish(proto, slashes, host, hostname, SubSeq(beforeHash, 1, qIdx - 1),
                 IF qIdx <= Len(beforeHash) THEN Drop(beforeHash, qIdx - 1) ELSE Null,
                 hash)

\* what follows the host splits at the first "#"
ParseHash(proto, slashes, host, hostname, rest) ==
  LET hashIdx == FirstOf(rest, {"#"})
  IN ParseSearch(proto, slashes, host, hostname, SubSeq(rest, 1, hashIdx - 1),
                 IF hashIdx <= Len(rest) THEN Drop(rest, hashIdx - 1) ELSE Null)

\* what follows the host: the part getHostname cut off the hostname goes in
\* front of it behind a "/"; behind a hostname in brackets it starts with "/"
AfterHost(host, rest) ==
  IF IsIpv6Hostname(StripPort(host))
  THEN (IF StartsWith(rest, <<"/">>) THEN rest ELSE <<"/">> \o rest)
  ELSE IF HostnameCut(StripPort(host)) <= Len(StripPort(host))
  THEN <<"/">> \o Drop(StripPort(host), HostnameCut(StripPort(host)) - 1) \o rest
  ELSE rest

\* the hostname as the parsed URL keeps it: a hostname in brackets loses them
HostnameField(host) ==
  IF IsIpv6Hostname(StripPort(host)) /\ Hostname(host) # <<>>
  THEN SubSeq(Hostname(host), 2, Len(Hostname(host)) - 1)
  ELSE Hostname(host)

\* the host runs to the first "/", "?" or "#" and may be empty; it is there
\* after "//" and after a protocol that is not a slashed one, never after a
\* hostless protocol; a hostname with a forbidden character makes url.parse throw
ParseHost(proto, slashes, rest) ==
  LET hostEnd == FirstOf(rest, {"/", "?", "#"})
  IN IF proto \notin HostlessProtocols
          /\ (slashes \/ (proto # Null /\ proto \notin SlashedProtocols))
     THEN (IF HostThrows(SubSeq(rest, 1, hostEnd - 1))
           THEN InvalidUrl
           ELSE ParseHash(proto, slashes, HostField(SubSeq(rest, 1, hostEnd - 1)),
                          HostnameField(SubSeq(rest, 1, hostEnd - 1)),
                          AfterHost(SubSeq(rest, 1, hostEnd - 1), Drop(rest, hostEnd - 1))))
     ELSE ParseHash(proto, slashes, Null, Null, rest)

\* "//" after a protocol that is not hostless is taken off and remembered
ParseSlashes(proto, rest) ==
  IF proto # Null /\ proto \notin HostlessProtocols /\ StartsWith(rest, <<"/", "/">>)
  THEN ParseHost(proto, TRUE, Drop(rest, 2))
  ELSE ParseHost(proto, FALSE, rest)

\* the protocol is taken off
ParseAfterProtocol(proto, s) ==
  ParseSlashes(proto, IF proto = Null THEN s ELSE Drop(s, Len(proto)))

\* URL.parse(s): protocol, slashes, host, pathname, search, hash, path; InvalidUrl
\* when it throws
UrlParse(s) == ParseAfterProtocol(ParseProtocol(s), s)

\* search.replace(/#/g, '%23') in url.format
RECURSIVE EscapeSearch(_)
EscapeSearch(s) ==
  IF s = <<>> THEN <<>>
  ELSE IF Head(s) = "#" THEN <<"%", "2", "3">> \o EscapeSearch(Tail(s))
  ELSE <<Head(s)>> \o EscapeSearch(Tail(s))

\* the end of url.format: "//" before the host, "/" before a path behind it;
\* after file: the "//" is written without a host too
FormatParts(protocol, host, escaped, withHost, search, hash) ==
  protocol
    \o (IF withHost THEN <<"/", "/">> \o host
        ELSE IF protocol = FILE_PROTOCOL THEN <<"/", "/">>
        ELSE host)
    \o (IF withHost /\ escaped # <<>> /\ Head(escaped) # "/" THEN <<"/">> \o escaped ELSE escaped)
    \o search \o hash

\* URL.format(u)
UrlFormat(u) ==
  FormatParts(OrEmpty(u.protocol), OrEmpty(u.host), EscapePathname(OrEmpty(u.pathname)),
              u.slashes \/ (OrEmpty(u.protocol) \in SlashedProtocols /\ OrEmpty(u.host) # <<>>),
              EscapeSearch(OrEmpty(u.search)), OrEmpty(u.hash))

\* path argument of the call in main
VERSION_PATH ==
  <<"/", "h", "e", "l", "i", "x", "-", "v", "e", "r", "s", "i", "o", "n", ".", "t", "x", "t">>

\* `${rootPath}/${owner}/${repo}/${ref}/${path}`
FullPathTemplate(rootPath, owner, repo, ref, path) ==
  TemplateStr(rootPath) \o <<"/">> \o owner \o <<"/">> \o repo \o <<"/">> \o ref
    \o <<"/">> \o path

\* rootURI.pathname = fullPath; return URL.format(rootURI)
FormatWithPathname(rootURI, fullPath) == UrlFormat([rootURI EXCEPT !.pathname = fullPath])

\* what computeGithubURI gives when URL.parse(root) throws
Thrown == <<"ERR_INVALID_URL">>

\* computeGithubURI(root, owner, repo, ref, path)
computeGithubURI(root, owner, repo, ref, path) ==
  LET rootURI == UrlParse(root)
  IN IF rootURI = InvalidUrl
     THEN Thrown
     ELSE FormatWithPathname(rootURI,
            CollapseSlashes(FullPathTemplate(rootURI.path, owner, repo, ref, path)))

(***************************************************************************)
(* Responses.                                                              *)
(***************************************************************************)
CACHE_CONTROL ==
  <<"n", "o", "-", "s", "t", "o", "r", "e", ",", " ", "p", "r", "i", "v", "a", "t", "e",
    ",", " ", "m", "u", "s", "t", "-", "r", "e", "v", "a", "l", "i", "d", "a", "t", "e">>

SURROGATE_CONTROL == <<"m", "a", "x", "-", "a", "g", "e", ":", " ", "3", "0">>

VARY ==
  <<"X", "-", "O", "w", "n", "e", "r", ",", "X", "-", "R", "e", "p", "o", ",", "X", "-",
    "R", "e", "f", ",", "X", "-", "R", "e", "p", "o", "-", "R", "o", "o", "t", "-", "P",
    "a", "t", "h">>

MSG_REQUIRED ==
  <<"o", "w", "n", "e", "r", ",", " ", "r", "e", "p", "o", ",", " ", "r", "e", "f", " ",
    "r", "e", "q", "u", "i", "r", "e", "d", ".">>

MSG_UNABLE ==
  <<"u", "n", "a", "b", "l", "e", " ", "t", "o", " ", "f", "e", "t", "c", "h", " ", "v",
    "e", "r", "s", "i", "o", "n">>

MSG_NO_VERSION == <<"n", "o", " ", "v", "e", "r", "s", "i", "o", "n">>

\* the default of x-repo-root-path
DEFAULT_ROOT ==
  <<"h", "t", "t", "p", "s", ":", "/", "/", "r", "a", "w", ".", "g", "i", "t", "h", "u",
    "b", "u", "s", "e", "r", "c", "o", "n", "t", "e", "n", "t", ".", "c", "o", "m", "/">>

\* no response returned yet
NoResponse == [statusCode |-> 0, body |-> NoUrl, headers |-> <<>>]

\* the content type a Response gives a body that is a string
TEXT_PLAIN ==
  <<"t", "e", "x", "t", "/", "p", "l", "a", "i", "n", ";", " ", "c", "h", "a", "r", "s",
    "e", "t", "=", "u", "t", "f", "-", "8">>

\* the name of a header main sets as the Headers of a Response keep it: lower case
LowerName(name) ==
  CASE name = "Cache-Control" -> "cache-control"
    [] name = "Surrogate-Control" -> "surrogate-control"
    [] name = "Surrogate-Key" -> "surrogate-key"
    [] name = "Vary" -> "vary"
    [] OTHER -> name

\* new Response(body, { status, headers }), read as status, body and header
\* entries: the names in lower case, and content-type for the string body
Response(body, init) ==
  [statusCode |-> init.status,
   body       |-> body,
   headers    |-> [n \in {LowerName(k) : k \in DOMAIN init.headers} \cup {"content-type"} |->
                    IF n = "content-type" /\ \A k \in DOMAIN init.headers : LowerName(k) # n
                    THEN TEXT_PLAIN
                    ELSE init.headers[CHOOSE k \in DOMAIN init.headers : LowerName(k) = n]]]

\* what a variant returns: the flat one a plain object, the headers one a Response
Reply(v, body, statusCode, headers) ==
  IF v = "flat"
  THEN [statusCode |-> statusCode, headers |-> headers, body |-> body]
  ELSE Response(body, [status |-> statusCode, headers |-> headers])

\* error(message, statusCode) of variant v
error(v, message, statusCode) ==
  Reply(v, message, statusCode, "Cache-Control" :> CACHE_CONTROL)

\* `preflight-${ref}--${repo}--${owner}`
SurrogateKeyOwnerFirst(owner, repo, ref) ==
  <<"p", "r", "e", "f", "l", "i", "g", "h", "t", "-">> \o owner \o <<"-", "-">> \o repo
    \o <<"-", "-">> \o ref
SurrogateKey(owner, repo, ref) ==
  <<"p", "r", "e", "f", "l", "i", "g", "h", "t", "-">> \o ref \o <<"-", "-">> \o repo
    \o <<"-", "-">> \o owner

\* the headers both 200 responses share
CommonHeaders(surrogateKey) ==
  ("Cache-Control" :> CACHE_CONTROL) @@ ("Surrogate-Control" :> SURROGATE_CONTROL)
    @@ ("Surrogate-Key" :> surrogateKey) @@ ("Vary" :> VARY)

\* the response main of variant v returns once it has a version
VersionResponse(v, version, surrogateKey) ==
  IF version # <<>>
  THEN Reply(v, version, 200, ("x-pages-version" :> version) @@ CommonHeaders(surrogateKey))
  ELSE Reply(v, MSG_NO_VERSION, 200, CommonHeaders(surrogateKey))

(***************************************************************************)
(* The request and how each variant reads it.                              *)
(***************************************************************************)
Variants == {"flat", "headers"}

\* !owner || !repo || !ref
MissingParamsNoRef(r) == Falsy(r.owner) \/ Falsy(r.repo)
MissingParams(r) == Falsy(r.owner) \/ Falsy(r.repo) \/ Falsy(r.ref)

\* the root the variant works with
RootOf(v, r) ==
  IF v = "flat"
  THEN (IF r.root = Absent THEN DEFAULT_ROOT ELSE r.root)
  ELSE (IF Falsy(r.root) THEN DEFAULT_ROOT ELSE r.root)

\* resp.ok
OkBelow400(status) == status >= 200 /\ status < 400
Ok(status) == status >= 200 /\ status <= 299

\* getVersion throws for this status
IsGithubErrorAlso404(status) == ~Ok(status)
IsGithubError(status) == ~Ok(status) /\ status # 404

\* fetch() takes absolute http(s) URLs only; anything else rejects at once
ValidUrl(url) ==
  LET u == UrlParse(url)
  IN /\ u # InvalidUrl
     /\ u.protocol \in {<<"h", "t", "t", "p", ":">>, <<"h", "t", "t", "p", "s", ":">>}
     /\ u.slashes /\ ~Falsy(u.host) /\ Head(u.host) # ":"

(***************************************************************************)
(* Inputs.                                                                 *)
(***************************************************************************)
Invocations == 1..MaxInvocations

Owners == {Absent, <<>>, <<"o", "w">>}
Repos  == {Absent, <<>>, <<"r", "e">>}
Refs   == {Absent, <<>>, <<"m">>}

HOST == <<"h", "t", "t", "p", "s", ":", "/", "/", "h", ".", "i", "o">>

Roots ==
  {Absent, <<>>, HOST, HOST \o <<"/">>, HOST \o <<"/", "b">>, HOST \o <<"/", "b", "/">>,
   HOST \o <<"/", "/", "b", "/", "/", "c">>, HOST \o <<"/", "b", "?", "q">>,
   <<"h", "t", "t", "p", "s", ":", "/", "/", "[", "h", ".", "i", "o">>}

Requests == [owner : Owners, repo : Repos, ref : Refs, root : Roots]

BodyChars == {" ", "\n", "", "v"}
Bodies == UNION {[1..n -> BodyChars] : n \in 0..MaxBodyLen}
Statuses == {200, 299, 300, 404, 500}
Remotes == [status : Statuses, body : Bodies]

\* the smaller inputs of the runs with several invocations in flight
PairRequests ==
  [owner : {Absent, <<"o", "w">>}, repo : {<<"r", "e">>}, ref : {<<"m">>},
   root : {<<>>, HOST \o <<"/", "b">>}]
PairRemotes ==
  {[status |-> 200, body |-> <<" ", "v">>], [status |-> 200, body |-> <<" ">>],
   [status |-> 404, body |-> <<>>], [status |-> 500, body |-> <<"v">>]}

\* the remotes of the runs under fairness: every status, with a body that is
\* empty, blank, a version, and a version in white space
LiveRemotes ==
  [status : Statuses, body : {<<>>, <<" ">>, <<"v">>, <<"", "v", "\n">>}]

NoRequest == [owner |-> Absent, repo |-> Absent, ref |-> Absent, root |-> Absent]
NoAnswer  == [kind |-> "none", status |-> 0, body |-> <<>>]

(***************************************************************************)
(* State.                                                                  *)
(***************************************************************************)
VARIABLES
  remote,    \* what the remote serves: [status, body]; no action changes it
  pc,        \* where each invocation stands
  variant,   \* which variant of main handles it
  req,       \* its request
  fetchUrl,  \* the URL it passed to fetch, NoUrl before
  gets,      \* how many times it called fetch
  answer,    \* what came back for its GET so far
  version,   \* main's local variable version
  resp       \* the response main returned, NoResponse before

vars == <<remote, pc, variant, req, fetchUrl, gets, answer, version, resp>>

\* the variable an invocation's version lives in: a local of its own call
SharedVersionVar(i) == 1
VersionVar(i) == i

InitLocal ==
  /\ pc = [i \in Invocations |-> "idle"]
  /\ variant = [i \in Invocations |-> "flat"]
  /\ req = [i \in Invocations |-> NoRequest]
  /\ fetchUrl = [i \in Invocations |-> NoUrl]
  /\ gets = [i \in Invocations |-> 0]
  /\ answer = [i \in Invocations |-> NoAnswer]
  /\ version = [i \in Invocations |-> <<>>]
  /\ resp = [i \in Invocations |-> NoResponse]

Init == remote \in Remotes /\ InitLocal

InitPair == remote \in PairRemotes /\ InitLocal

InitLive == remote \in LiveRemotes /\ InitLocal

\* where the call of fetch leaves the invocation: waiting for the remote, or
\* with a promise that is rejected already because the URL cannot be requested
FetchCalled(url) == IF ValidUrl(url) THEN "awaitFetch" ELSE "fetchRefused"

(***************************************************************************)
(* main up to its first await: read the request, validate, compute the URL *)
(* and call fetch; when computing the URL throws, main's catch returns the *)
(* 504 response before anything is awaited.                                *)
(***************************************************************************)
Invoke(i, v, r) ==
  /\ pc[i] = "idle"
  /\ variant' = [variant EXCEPT ![i] = v]
  /\ req' = [req EXCEPT ![i] = r]
  /\ IF MissingParams(r)
     THEN /\ resp' = [resp EXCEPT ![i] = error(v, MSG_REQUIRED, 400)]
          /\ pc' = [pc EXCEPT ![i] = "done"]
          /\ UNCHANGED <<fetchUrl, gets, version>>
     ELSE IF computeGithubURI(RootOf(v, r), r.owner, r.repo, r.ref, VERSION_PATH) = Thrown
     THEN /\ version' = [version EXCEPT ![VersionVar(i)] = <<>>]
          /\ resp' = [resp EXCEPT ![i] = error(v, MSG_UNABLE, 504)]
          /\ pc' = [pc EXCEPT ![i] = "done"]
          /\ UNCHANGED <<fetchUrl, gets>>
     ELSE /\ version' = [version EXCEPT ![VersionVar(i)] = <<>>]
          /\ fetchUrl' = [fetchUrl EXCEPT ![i] =
               computeGithubURI(RootOf(v, r), r.owner, r.repo, r.ref, VERSION_PATH)]
          /\ gets' = [gets EXCEPT ![i] = @ + 1]
          /\ pc' = [pc EXCEPT ![i] = FetchCalled(
               computeGithubURI(RootOf(v, r), r.owner, r.repo, r.ref, VERSION_PATH))]
          /\ UNCHANGED resp
  /\ UNCHANGED <<remote, answer>>

(***************************************************************************)
(* The outcomes of await fetch(url, fetchopts) and await resp.text().      *)
(***************************************************************************)
\* the remote answers: fetch resolves with the status
FetchResolve(i) ==
  /\ pc[i] = "awaitFetch"
  /\ answer' = [answer EXCEPT ![i] = [kind |-> "headers", status |-> remote.status, body |-> <<>>]]
  /\ pc' = [pc EXCEPT ![i] = "awaitText"]
  /\ UNCHANGED <<remote, variant, req, fetchUrl, gets, version, resp>>

\* the body arrives: resp.text() resolves
TextResolve(i) ==
  /\ pc[i] = "awaitText"
  /\ answer' = [answer EXCEPT ![i] = [kind |-> "response", status |-> @.status, body |-> remote.body]]
  /\ pc' = [pc EXCEPT ![i] = "gotText"]
  /\ UNCHANGED <<remote, variant, req, fetchUrl, gets, version, resp>>

\* an await of getVersion rejects: the error leaves getVersion
Reject(i, why) ==
  /\ answer' = [answer EXCEPT ![i] = [kind |-> why, status |-> @.status, body |-> <<>>]]
  /\ pc' = [pc EXCEPT ![i] = "failed"]
  /\ UNCHANGED <<remote, variant, req, fetchUrl, gets, version, resp>>

\* fetch rejects a URL it cannot request; nothing is sent
InvalidUrlReject(i) ==
  /\ pc[i] = "fetchRefused"
  /\ Reject(i, "invalid-url")

\* the connection fails before the status or before the end of the body
NetworkError(i) ==
  /\ pc[i] \in {"awaitFetch", "awaitText"}
  /\ Reject(i, "network-error")

\* signal: fetchContext.timeoutSignal(5000) aborts what is still pending
NoTimeout(i) == FALSE /\ UNCHANGED vars
Timeout(i) ==
  /\ pc[i] \in {"awaitFetch", "awaitText"}
  /\ Reject(i, "timeout")

(***************************************************************************)
(* getVersion after the text, and main after getVersion.                   *)
(***************************************************************************)
\* if (resp.ok) return text.trim(); if (resp.status !== 404) throw; return ''
GetVersionReturn(i) ==
  /\ pc[i] = "gotText"
  /\ IF IsGithubError(answer[i].status)
     THEN /\ pc' = [pc EXCEPT ![i] = "failed"]
          /\ UNCHANGED version
     ELSE /\ version' = [version EXCEPT ![VersionVar(i)] =
               IF Ok(answer[i].status) THEN Trim(answer[i].body) ELSE <<>>]
          /\ pc' = [pc EXCEPT ![i] = "gotVersion"]
  /\ UNCHANGED <<remote, variant, req, fetchUrl, gets, answer, resp>>

\* catch (e) { return error('unable to fetch version', 504); }
MainCatchRetry(i) ==
  /\ pc[i] = "failed"
  /\ IF gets[i] < 2
     THEN /\ gets' = [gets EXCEPT ![i] = @ + 1]
          /\ pc' = [pc EXCEPT ![i] = "awaitFetch"]
          /\ answer' = [answer EXCEPT ![i] = NoAnswer]
          /\ UNCHANGED resp
     ELSE /\ resp' = [resp EXCEPT ![i] = error(variant[i], MSG_UNABLE, 504)]
          /\ pc' = [pc EXCEPT ![i] = "done"]
          /\ UNCHANGED <<gets, answer>>
  /\ UNCHANGED <<remote, variant, req, fetchUrl, version>>
MainCatch(i) ==
  /\ pc[i] = "failed"
  /\ resp' = [resp EXCEPT ![i] = error(variant[i], MSG_UNABLE, 504)]
  /\ pc' = [pc EXCEPT ![i] = "done"]
  /\ UNCHANGED <<remote, variant, req, fetchUrl, gets, answer, version>>

\* the two 200 responses
MainReturn(i) ==
  /\ pc[i] = "gotVersion"
  /\ resp' = [resp EXCEPT ![i] =
       VersionResponse(variant[i], version[VersionVar(i)],
                       SurrogateKey(req[i].owner, req[i].repo, req[i].ref))]
  /\ pc' = [pc EXCEPT ![i] = "done"]
  /\ UNCHANGED <<remote, variant, req, fetchUrl, gets, answer, version>>

\* a step of an invocation that is under way
Step(i) ==
  \/ FetchResolve(i)
  \/ TextResolve(i)
  \/ InvalidUrlReject(i)
  \/ NetworkError(i)
  \/ Timeout(i)
  \/ GetVersionReturn(i)
  \/ MainCatch(i)
  \/ MainReturn(i)

(***************************************************************************)
(* Specifications.                                                         *)
(***************************************************************************)
\* one invocation, every request and every remote
Next ==
  \/ \E v \in Variants, r \in Requests : Invoke(1, v, r)
  \/ Step(1)

Spec == Init /\ [][Next]_vars

\* what the runtime guarantees: a pending continuation of main runs, a URL
\* fetch cannot request is rejected, and the timer of the abort signal fires
Fairness(i) ==
  /\ WF_vars(InvalidUrlReject(i))
  /\ WF_vars(Timeout(i))
  /\ WF_vars(GetVersionReturn(i))
  /\ WF_vars(MainCatch(i))
  /\ WF_vars(MainReturn(i))

SpecLive == InitLive /\ [][Next]_vars /\ Fairness(1)

\* several invocations in flight, interleaved in every order
NextPair ==
  \E i \in Invocations :
    \/ \E v \in Variants, r \in PairRequests : Invoke(i, v, r)
    \/ Step(i)

SpecPair == InitPair /\ [][NextPair]_vars

(***************************************************************************)
(* Vocabulary of the properties.                                           *)
(***************************************************************************)
\* a required field that is missing or empty
IsMissing(x) == x = Absent \/ Len(x) = 0

AnyMissing(r) == IsMissing(r.owner) \/ IsMissing(r.repo) \/ IsMissing(r.ref)

\* ECMAScript WhiteSpace and LineTerminator
IsLineTerminator(c) == c \in {"\n", "\r", "U+2028", "U+2029"}
IsSpaceSeparator(c) ==
  c \in {" ", "U+00A0", "U+1680", "U+2000", "U+2001", "U+2002", "U+2003", "U+2004",
         "U+2005", "U+2006", "U+2007", "U+2008", "U+2009", "U+200A", "U+202F", "U+205F",
         "U+3000"}
IsWhite(c) == c \in {"\t", "", "\f", "U+FEFF"} \/ IsSpaceSeparator(c) \/ IsLineTerminator(c)

\* t is s without its leading and trailing white space
IsTrimOf(t, s) ==
  \E a \in 0..Len(s) : \E b \in a..Len(s) :
    /\ t = SubSeq(s, a + 1, b)
    /\ \A k \in 1..a : IsWhite(s[k])
    /\ \A k \in (b + 1)..Len(s) : IsWhite(s[k])
    /\ (t = <<>> \/ (~IsWhite(t[1]) /\ ~IsWhite(t[Len(t)])))

AllWhite(s) == \A k \in 1..Len(s) : IsWhite(s[k])

Is2xx(n) == n \in 200..299

\* the invocation got the remote's whole answer: status and body
Answered(i) == answer[i].kind = "response"

\* its GET failed: fetch or the reading of the body rejected
TransportFailed(i) == answer[i].kind \in {"network-error", "timeout", "invalid-url"}

Returned(i) == pc[i] = "done"

\* header names are compared without regard to case
CanonicalName(name) ==
  CASE name \in {"Cache-Control", "cache-control"} -> "cache-control"
    [] name \in {"Surrogate-Control", "surrogate-control"} -> "surrogate-control"
    [] name \in {"Surrogate-Key", "surrogate-key"} -> "surrogate-key"
    [] name \in {"Vary", "vary"} -> "vary"
    [] name \in {"Content-Type", "content-type"} -> "content-type"
    [] name \in {"X-Pages-Version", "x-pages-version"} -> "x-pages-version"
    [] OTHER -> name

\* the names of the headers of a response
HeaderNames(r) == {CanonicalName(k) : k \in DOMAIN r.headers}

\* the response carries the header with this value
HasHeader(r, name, value) ==
  \E k \in DOMAIN r.headers : CanonicalName(k) = name /\ r.headers[k] = value

\* what the Response object of the headers variant adds to the headers main sets
AddedByResponse(i) == IF variant[i] = "headers" THEN {"content-type"} ELSE {}

\* the headers of invocation i's response are those named, and content-type
\* with text/plain; charset=utf-8 where the Response object adds it
HeadersAre(i, names) ==
  /\ HeaderNames(resp[i]) = names \cup AddedByResponse(i)
  /\ variant[i] = "headers" => HasHeader(resp[i], "content-type", TEXT_PLAIN)

\* the 400 response but for its header set
Is400Body(r) ==
  /\ r.statusCode = 400
  /\ r.body = MSG_REQUIRED
  /\ HasHeader(r, "cache-control", CACHE_CONTROL)

\* the 504 response but for its header set
Is504Body(r) ==
  /\ r.statusCode = 504
  /\ r.body = MSG_UNABLE
  /\ HasHeader(r, "cache-control", CACHE_CONTROL)

\* the 200 "no version" response of a request but for its header set
IsNoVersionBody(r, q) ==
  /\ r.statusCode = 200
  /\ r.body = MSG_NO_VERSION
  /\ HasHeader(r, "cache-control", CACHE_CONTROL)
  /\ HasHeader(r, "surrogate-control", SURROGATE_CONTROL)
  /\ HasHeader(r, "vary", VARY)
  /\ HasHeader(r, "surrogate-key",
       <<"p", "r", "e", "f", "l", "i", "g", "h", "t", "-">> \o q.ref \o <<"-", "-">>
         \o q.repo \o <<"-", "-">> \o q.owner)

\* invocation i returned the 200 "no version" response
IsNoVersion(i) ==
  /\ IsNoVersionBody(resp[i], req[i])
  /\ HeadersAre(i, {"cache-control", "surrogate-control", "surrogate-key", "vary"})

\* a missing-parameter request was answered without any GET
NoGet(i) == gets[i] = 0 /\ fetchUrl[i] = NoUrl /\ answer[i] = NoAnswer

(***************************************************************************)
(* C1 as stated: a request with owner, repo or ref missing or empty is     *)
(* answered with exactly 400, "owner, repo, ref required." and the single  *)
(* header Cache-Control, and fetch is never called for it.                 *)
(***************************************************************************)
C1_SingleHeader400 ==
  \A i \in Invocations :
    (pc[i] # "idle" /\ AnyMissing(req[i])) =>
      /\ pc[i] = "done"
      /\ Is400Body(resp[i])
      /\ HeaderNames(resp[i]) = {"cache-control"}
      /\ NoGet(i)

(***************************************************************************)
(* C1 amended: a request with owner, repo or ref missing or empty is       *)
(* answered with 400, "owner, repo, ref required." and Cache-Control:      *)
(* no-store, private, must-revalidate; the headers variant's Response adds *)
(* content-type: text/plain; charset=utf-8; there is no other header, and  *)
(* fetch is never called for it.                                           *)
(***************************************************************************)
C1_MissingParamGives400 ==
  \A i \in Invocations :
    (pc[i] # "idle" /\ AnyMissing(req[i])) =>
      /\ pc[i] = "done"
      /\ Is400Body(resp[i])
      /\ HeadersAre(i, {"cache-control"})
      /\ NoGet(i)

C1_Witness ==
  \E i \in Invocations :
    /\ Returned(i)
    /\ variant[i] = "headers"
    /\ ~IsMissing(req[i].owner) /\ ~IsMissing(req[i].repo)
    /\ req[i].ref = <<>>
    /\ req[i].root # Absent
    /\ resp[i].statusCode = 400
    /\ DOMAIN resp[i].headers = {"cache-control", "content-type"}

(***************************************************************************)
(* C2: a 2xx answer whose body is not empty once trimmed gives 200 with    *)
(* the trimmed body, x-pages-version equal to it, the cache headers, and   *)
(* Surrogate-Key preflight-<ref>--<repo>--<owner>.                         *)
(***************************************************************************)
C2_SuccessResponse ==
  \A i \in Invocations :
    (Returned(i) /\ ~AnyMissing(req[i]) /\ Answered(i) /\ Is2xx(answer[i].status)
       /\ ~AllWhite(answer[i].body)) =>
      /\ resp[i].statusCode = 200
      /\ IsTrimOf(resp[i].body, answer[i].body)
      /\ HeadersAre(i, {"x-pages-version", "cache-control", "surrogate-control",
                        "surrogate-key", "vary"})
      /\ HasHeader(resp[i], "x-pages-version", resp[i].body)
      /\ HasHeader(resp[i], "cache-control", CACHE_CONTROL)
      /\ HasHeader(resp[i], "surrogate-control", SURROGATE_CONTROL)
      /\ HasHeader(resp[i], "vary", VARY)
      /\ HasHeader(resp[i], "surrogate-key",
           <<"p", "r", "e", "f", "l", "i", "g", "h", "t", "-">> \o req[i].ref \o <<"-", "-">>
             \o req[i].repo \o <<"-", "-">> \o req[i].owner)

C2_Witness ==
  \E i \in Invocations :
    /\ Returned(i)
    /\ Answered(i) /\ answer[i].status = 299
    /\ answer[i].body = <<"", "v", "\n">>
    /\ resp[i].body = <<"v">>
    /\ HasHeader(resp[i], "surrogate-key",
         <<"p", "r", "e", "f", "l", "i", "g", "h", "t", "-", "m", "-", "-", "r", "e", "-", "-", "o", "w">>)

(***************************************************************************)
(* C3: a 404 answer is not an error: 200, "no version", the headers of the *)
(* success case without x-pages-version; never 504.                        *)
(***************************************************************************)
C3_NotFoundIsNoVersion ==
  \A i \in Invocations :
    (Answered(i) /\ answer[i].status = 404) =>
      /\ pc[i] \in {"gotText", "gotVersion", "done"}
      /\ resp[i].statusCode # 504
      /\ Returned(i) => IsNoVersion(i)

C3_Witness ==
  \E i \in Invocations :
    /\ Returned(i)
    /\ Answered(i) /\ answer[i].status = 404 /\ answer[i].body = <<"v">>
    /\ resp[i].body = MSG_NO_VERSION

\* the GET of the invocation failed, or was answered with an error status that getVersion has seen
C4_Failed(i) ==
  \/ TransportFailed(i)
  \/ Answered(i) /\ ~Is2xx(answer[i].status) /\ answer[i].status # 404 /\ pc[i] # "gotText"

(***************************************************************************)
(* C4 as stated: any answer that is neither 2xx nor 404, and any network   *)
(* or timeout failure, ends in exactly 504, "unable to fetch version" and  *)
(* the single header Cache-Control; the error is caught inside main.       *)
(***************************************************************************)
C4_SingleHeader504 ==
  \A i \in Invocations :
    C4_Failed(i) =>
      \/ pc[i] = "failed" /\ resp[i] = NoResponse
      \/ pc[i] = "done" /\ Is504Body(resp[i]) /\ HeaderNames(resp[i]) = {"cache-control"}

(***************************************************************************)
(* C4 amended: any answer that is neither 2xx nor 404, and any network or  *)
(* timeout failure, ends in 504, "unable to fetch version" and             *)
(* Cache-Control: no-store, private, must-revalidate; the headers          *)
(* variant's Response adds content-type: text/plain; charset=utf-8; there  *)
(* is no other header, and the error is caught inside main.                *)
(***************************************************************************)
C4_FailureGives504 ==
  \A i \in Invocations :
    C4_Failed(i) =>
      \/ pc[i] = "failed" /\ resp[i] = NoResponse
      \/ pc[i] = "done" /\ Is504Body(resp[i]) /\ HeadersAre(i, {"cache-control"})

C4_Witness ==
  \E i \in Invocations :
    /\ Returned(i)
    /\ variant[i] = "headers"
    /\ Answered(i) /\ answer[i].status = 300 /\ answer[i].body = <<"v">>
    /\ resp[i].statusCode = 504
    /\ DOMAIN resp[i].headers = {"cache-control", "content-type"}

(***************************************************************************)
(* C5: an invocation calls fetch at most once; once the attempt has failed *)
(* its next step returns the 504 response without another GET.            *)
(***************************************************************************)
C5_NoRetry ==
  /\ [](\A i \in Invocations : gets[i] <= 1)
  /\ [][\A i \in Invocations :
          (pc[i] = "failed" /\ pc'[i] # "failed") =>
            /\ pc'[i] = "done"
            /\ Is504Body(resp'[i])
            /\ gets'[i] = gets[i]]_vars

C5_Witness ==
  \E i \in Invocations :
    /\ Returned(i)
    /\ answer[i].kind = "network-error"
    /\ gets[i] = 1
    /\ resp[i].statusCode = 504

\* a response with one of the three statuses, a body and a Cache-Control header
C6_WellFormed(r) ==
  /\ r.statusCode \in {400, 200, 504}
  /\ r.body # NoUrl
  /\ "cache-control" \in HeaderNames(r)

(***************************************************************************)
(* C6: every invocation ends by returning one response whose status is     *)
(* 400, 200 or 504, also when the remote never answers or never finishes   *)
(* its body: the timeout turns the wait into the 504 response.  A response *)
(* once returned is never replaced.                                        *)
(***************************************************************************)
C6_AlwaysTerminates ==
  /\ \A i \in Invocations :
       [](pc[i] # "idle" => <>(pc[i] = "done" /\ C6_WellFormed(resp[i])))
  /\ [][\A i \in Invocations : resp[i] # NoResponse => resp'[i] = resp[i]]_vars

C6_Witness ==
  \E i \in Invocations :
    /\ Returned(i)
    /\ answer[i].kind = "timeout" /\ answer[i].status = 200
    /\ resp[i].statusCode = 504

\* two slashes in a row
C7_HasDoubleSlash(s) == \E k \in 1..(Len(s) - 1) : s[k] = "/" /\ s[k + 1] = "/"

\* the root's pathname followed by /<owner>/<repo>/<ref>/helix-version.txt, slashes collapsed
C7_ExpectedPath(root, q) ==
  CollapseSlashes(OrEmpty(UrlParse(root).pathname) \o <<"/">> \o q.owner \o <<"/">>
                    \o q.repo \o <<"/">> \o q.ref \o VERSION_PATH)

(***************************************************************************)
(* C7: for every root URL the URL computed keeps the root's scheme and     *)
(* host, and its path is the root's base path followed by                  *)
(* /<owner>/<repo>/<ref>/helix-version.txt with runs of slashes collapsed, *)
(* hence without "//".                                                     *)
(***************************************************************************)
C7_UrlKeepsRootAndAppendsPath ==
  \A i \in Invocations :
    (fetchUrl[i] # NoUrl /\ ValidUrl(RootOf(variant[i], req[i]))) =>
      /\ UrlParse(fetchUrl[i]).protocol = UrlParse(RootOf(variant[i], req[i])).protocol
      /\ UrlParse(fetchUrl[i]).host = UrlParse(RootOf(variant[i], req[i])).host
      /\ UrlParse(fetchUrl[i]).pathname = C7_ExpectedPath(RootOf(variant[i], req[i]), req[i])
      /\ ~C7_HasDoubleSlash(UrlParse(fetchUrl[i]).pathname)

(***************************************************************************)
(* C8: the response depends on the invocation's own request and on the     *)
(* answer to its own GET only: two invocations of the same variant with    *)
(* the same request and the same answer return the same response, however  *)
(* they interleave, and a step of one invocation leaves the state of every *)
(* other invocation alone.                                                 *)
(***************************************************************************)
C8_Isolation ==
  /\ [](\A i, j \in Invocations :
          (Returned(i) /\ Returned(j) /\ variant[i] = variant[j] /\ req[i] = req[j]
             /\ answer[i] = answer[j]) => resp[i] = resp[j])
  /\ [][\A i \in Invocations :
          pc'[i] = pc[i] =>
            /\ resp'[i] = resp[i] /\ version'[i] = version[i] /\ answer'[i] = answer[i]
            /\ fetchUrl'[i] = fetchUrl[i] /\ gets'[i] = gets[i] /\ req'[i] = req[i]]_vars

C8_Witness ==
  \E i, j \in Invocations :
    /\ i # j
    /\ Returned(i) /\ Returned(j)
    /\ variant[i] = variant[j] /\ req[i] = req[j]
    /\ Answered(i) /\ answer[i] = answer[j] /\ answer[i].status = 200
    /\ resp[i].body = <<"v">>

\* the headers main set, under their names without regard to case: what the
\* response carries apart from what its shape adds
C9_HeadersSet(i) ==
  {<<CanonicalName(k), resp[i].headers[k]>> :
     k \in {h \in DOMAIN resp[i].headers : CanonicalName(h) \notin AddedByResponse(i)}}

\* two responses with the same status, body and headers
C9_SameResponse(i, j) ==
  /\ resp[i].statusCode = resp[j].statusCode
  /\ resp[i].body = resp[j].body
  /\ C9_HeadersSet(i) = C9_HeadersSet(j)

(***************************************************************************)
(* C9: the two variants differ in shape only: for the same request they    *)
(* pass the same URL to fetch (or both none) and, given the same answer,   *)
(* return the same status, body and headers.                               *)
(***************************************************************************)
C9_VariantsAgree ==
  \A i, j \in Invocations :
    (pc[i] # "idle" /\ pc[j] # "idle" /\ variant[i] # variant[j] /\ req[i] = req[j]) =>
      /\ fetchUrl[i] = fetchUrl[j]
      /\ (Returned(i) /\ Returned(j) /\ answer[i] = answer[j]) => C9_SameResponse(i, j)

(***************************************************************************)
(* C10: a 2xx answer whose body is empty or white space only is answered   *)
(* like a 404; a response carries x-pages-version exactly when its body is *)
(* a non-empty trimmed version read from a 2xx answer, and the header      *)
(* always equals the body.                                                 *)
(***************************************************************************)
C10_VersionHeaderIffVersion ==
  \A i \in Invocations :
    Returned(i) =>
      /\ ("x-pages-version" \in DOMAIN resp[i].headers) <=>
           (Answered(i) /\ Is2xx(answer[i].status) /\ ~AllWhite(answer[i].body))
      /\ ("x-pages-version" \in DOMAIN resp[i].headers) =>
           /\ resp[i].headers["x-pages-version"] = resp[i].body
           /\ resp[i].body # <<>>
           /\ IsTrimOf(resp[i].body, answer[i].body)
      /\ (Answered(i) /\ Is2xx(answer[i].status) /\ AllWhite(answer[i].body)) =>
           IsNoVersion(i)

C10_Witness ==
  \E i \in Invocations :
    /\ Returned(i)
    /\ Answered(i) /\ answer[i].status = 200 /\ answer[i].body = <<" ", "", "\n">>
    /\ resp[i].body = MSG_NO_VERSION
    /\ "x-pages-version" \notin DOMAIN resp[i].headers

=============================================================================
